---- MODULE Spec2Model ----
(***************************************************************************)
(* Model of src/src/pdf_extractor.py and src/src/config.py: the validator  *)
(* validate_pdf_file and the three extraction operations                   *)
(* extract_text_from_pdf, extract_text_by_pages and get_pdf_metadata.      *)
(*                                                                         *)
(* Strings are sequences of one-character strings, so that splitext,       *)
(* lower, split, join and title are computed as Python computes them.      *)
(* The PyPDF2 reader is the environment: a document is what the reader     *)
(* would report for the file (a failure, the encryption flag, the raw page *)
(* texts, the document-info dictionary).                                   *)
(***************************************************************************)
EXTENDS Integers, Sequences, FiniteSets, TLC

VARIABLES config, file, res

vars == <<config, file, res>>

----------------------------------------------------------------------------
(* Bounds of the model *)

\* most pages a document has
MaxPages == 2

\* most characters of raw text a document holds, over all its pages
MaxChars == 3

\* most entries of a document-info dictionary
MaxInfoKeys == 1

\* most characters of the raw text of the page of a one-page document
MaxTextLen == 4

----------------------------------------------------------------------------
(* Characters and strings *)

LowerCase ==
  <<"a","b","c","d","e","f","g","h","i","j","k","l","m",
    "n","o","p","q","r","s","t","u","v","w","x","y","z">>

UpperCase ==
  <<"A","B","C","D","E","F","G","H","I","J","K","L","M",
    "N","O","P","Q","R","S","T","U","V","W","X","Y","Z">>

IsUpper(c) == \E i \in 1..Len(UpperCase) : UpperCase[i] = c

IsLower(c) == \E i \in 1..Len(LowerCase) : LowerCase[i] = c

\* str.lower() on one character
LowerChar(c) ==
  IF IsUpper(c)
  THEN LowerCase[CHOOSE i \in 1..Len(UpperCase) : UpperCase[i] = c]
  ELSE c

\* str.upper() on one character
UpperChar(c) ==
  IF IsLower(c)
  THEN UpperCase[CHOOSE i \in 1..Len(LowerCase) : LowerCase[i] = c]
  ELSE c

\* str.lower()
Lower(s) == [i \in 1..Len(s) |-> LowerChar(s[i])]

\* str.rfind(c) for a one-character c, as a 1-based index; 0 when absent
RFind(s, c) ==
  IF \E i \in 1..Len(s) : s[i] = c
  THEN CHOOSE i \in 1..Len(s) : s[i] = c /\ \A j \in (i+1)..Len(s) : s[j] # c
  ELSE 0

\* os.path.splitext(p)[1]: the text from the last dot of the last path
\* component on, empty when that component has no dot or only leading dots
SplitExt(p) ==
  LET sepIndex == RFind(p, "/")
      dotIndex == RFind(p, ".")
  IN IF dotIndex > sepIndex
        /\ \E k \in (sepIndex+1)..(dotIndex-1) : p[k] # "."
     THEN SubSeq(p, dotIndex, Len(p))
     ELSE <<>>

----------------------------------------------------------------------------
(* Configuration, src/src/config.py *)

SUPPORTED_EXTENSIONS == { <<".","p","d","f">> }

MAX_FILE_SIZE_MB == 50

BytesPerMB == 1024 * 1024

PRESERVE_LINE_BREAKS == TRUE

REMOVE_EXTRA_WHITESPACE == TRUE

\* The settings a process can run under: config.py as written, and the same
\* file edited before first use (size limit 0, either toggle switched).
DefaultConfig ==
  [ MAX_FILE_SIZE_MB        |-> MAX_FILE_SIZE_MB,
    PRESERVE_LINE_BREAKS    |-> PRESERVE_LINE_BREAKS,
    REMOVE_EXTRA_WHITESPACE |-> REMOVE_EXTRA_WHITESPACE ]

SizeLimitConfigs ==
  { [DefaultConfig EXCEPT !.MAX_FILE_SIZE_MB = m] : m \in {0, MAX_FILE_SIZE_MB} }

ToggleConfigs ==
  { [DefaultConfig EXCEPT !.PRESERVE_LINE_BREAKS = p,
                          !.REMOVE_EXTRA_WHITESPACE = w] : p, w \in BOOLEAN }

----------------------------------------------------------------------------
(* Exceptions *)

\* the classes of the exceptions in play, each with its base class
BaseClass ==
  [ Exception          |-> "BaseException",
    OSError            |-> "Exception",
    FileNotFoundError  |-> "OSError",
    ValueError         |-> "Exception",
    UnicodeDecodeError |-> "ValueError",
    PdfReadError       |-> "Exception" ]

\* isinstance(e, base) for an exception e of class kind: what an except
\* clause naming base tests
RECURSIVE IsInstance(_, _)
IsInstance(kind, base) ==
  \/ kind = base
  \/ /\ kind \in DOMAIN BaseClass
     /\ IsInstance(BaseClass[kind], base)

\* the spec's error kinds as the classes the code raises
NotFound == "FileNotFoundError"

InvalidInput == "ValueError"

ExtractionFailed == "Exception"

Exc(kind, msg) == [kind |-> kind, msg |-> msg]

\* outcomes of a call or of a step of one: a returned value or a raised
\* exception, with the calls made on the way, in order
Return(value, trace) == [status |-> "return", value |-> value, trace |-> trace]

Raise(exc, trace) == [status |-> "raise", exc |-> exc, trace |-> trace]

\* the outcome r of a step that ran after the events of trace
After(trace, r) == [r EXCEPT !.trace = trace \o @]

\* messages
MsgNotFound == <<"File not found: ">>

MsgUnsupported == <<"Unsupported file type: ">>

MsgTooLarge == <<"File size exceeds maximum allowed size">>

MsgEncrypted == <<"Cannot extract text from encrypted PDF. Please decrypt first.">>

MsgFailedText == <<"Failed to extract text: ">>

MsgFailedPages == <<"Failed to extract text by pages: ">>

MsgFailedMetadata == <<"Failed to extract metadata: ">>

----------------------------------------------------------------------------
(* The file system, as the calls of one process see it *)

\* os.path.exists(p): the one file of the model is at file.path
os_path_exists(p) == p = file.path /\ file.exists

\* os.path.getsize(p), in bytes
os_path_getsize(p) == file.size

\* os.path.basename(p)
os_path_basename(p) == SubSeq(p, RFind(p, "/") + 1, Len(p))

\* the working directory of the process
Cwd == <<"/", "w">>

\* os.path.abspath(p), for the paths of the model (no "." or ".." parts)
os_path_abspath(p) ==
  IF Len(p) > 0 /\ p[1] = "/" THEN p ELSE Cwd \o <<"/">> \o p

----------------------------------------------------------------------------
(* validate_pdf_file *)

\* file_size_mb > MAX_FILE_SIZE_MB, where file_size_mb is
\* getsize / (1024 * 1024): the float division is exact for the sizes of
\* the model, so the comparison is the one of the byte counts
\* (variant: the size in whole megabytes, by floor division)
ExceedsMaxSize_FloorDiv(size_bytes) ==
  size_bytes \div BytesPerMB > config.MAX_FILE_SIZE_MB

ExceedsMaxSize(size_bytes) == size_bytes > config.MAX_FILE_SIZE_MB * BytesPerMB

\* (variant: the extension is checked before the existence of the file)
validate_pdf_file_ExtensionFirst(file_path) ==
  LET file_ext == Lower(SplitExt(file_path)) IN
  IF file_ext \notin SUPPORTED_EXTENSIONS
  THEN Raise(Exc("ValueError", MsgUnsupported \o file_ext), <<"validate_pdf_file">>)
  ELSE IF ~ os_path_exists(file_path)
       THEN Raise(Exc("FileNotFoundError", MsgNotFound \o file_path), <<"validate_pdf_file">>)
       ELSE IF ExceedsMaxSize(os_path_getsize(file_path))
            THEN Raise(Exc("ValueError", MsgTooLarge), <<"validate_pdf_file">>)
            ELSE Return(TRUE, <<"validate_pdf_file", "validation passed">>)

\* (variant: the extension is compared without lower())
validate_pdf_file_CaseSensitive(file_path) ==
  IF ~ os_path_exists(file_path)
  THEN Raise(Exc("FileNotFoundError", MsgNotFound \o file_path), <<"validate_pdf_file">>)
  ELSE LET file_ext == SplitExt(file_path) IN
       IF file_ext \notin SUPPORTED_EXTENSIONS
       THEN Raise(Exc("ValueError", MsgUnsupported \o file_ext), <<"validate_pdf_file">>)
       ELSE IF ExceedsMaxSize(os_path_getsize(file_path))
            THEN Raise(Exc("ValueError", MsgTooLarge), <<"validate_pdf_file">>)
            ELSE Return(TRUE, <<"validate_pdf_file", "validation passed">>)

validate_pdf_file(file_path) ==
  IF ~ os_path_exists(file_path)
  THEN Raise(Exc("FileNotFoundError", MsgNotFound \o file_path), <<"validate_pdf_file">>)
  ELSE LET file_ext == Lower(SplitExt(file_path)) IN
       IF file_ext \notin SUPPORTED_EXTENSIONS
       THEN Raise(Exc("ValueError", MsgUnsupported \o file_ext), <<"validate_pdf_file">>)
       ELSE IF ExceedsMaxSize(os_path_getsize(file_path))
            THEN Raise(Exc("ValueError", MsgTooLarge), <<"validate_pdf_file">>)
            ELSE Return(TRUE, <<"validate_pdf_file", "validation passed">>)

----------------------------------------------------------------------------
(* The PyPDF2 reader, as the extraction operations use it *)

\* the None object: equal to no string
None == << "<None>" >>

\* PdfReader(file_path): the reader object for the file's content, or the
\* failure the library raises on opening it
PdfReader(file_path) ==
  IF ~ os_path_exists(file_path)
  THEN Raise(Exc("FileNotFoundError", <<"No such file or directory">>), <<"PdfReader">>)
  ELSE IF file.doc.fail.at = "open"
       THEN Raise(Exc(file.doc.fail.kind, <<"reader: open">>), <<"PdfReader">>)
       ELSE Return(file.doc, <<"PdfReader">>)

\* reader.is_encrypted
is_encrypted(reader) ==
  IF reader.fail.at = "is_encrypted"
  THEN Raise(Exc(reader.fail.kind, <<"reader: is_encrypted">>), <<"is_encrypted">>)
  ELSE Return(reader.encrypted, <<"is_encrypted">>)

\* reader.pages
pages(reader) ==
  IF reader.fail.at = "pages"
  THEN Raise(Exc(reader.fail.kind, <<"reader: pages">>), <<"pages">>)
  ELSE Return(reader.pages, <<"pages">>)

\* reader.pages[page_num - 1].extract_text()
extract_text(reader, page_num) ==
  IF reader.fail.at = "extract_text" /\ reader.fail.page = page_num
  THEN Raise(Exc(reader.fail.kind, <<"reader: extract_text">>), <<"extract_text">>)
  ELSE Return(reader.pages[page_num], <<"extract_text">>)

\* reader.metadata
metadata(reader) ==
  IF reader.fail.at = "metadata"
  THEN Raise(Exc(reader.fail.kind, <<"reader: metadata">>), <<"metadata">>)
  ELSE Return(reader.info, <<"metadata">>)

----------------------------------------------------------------------------
(* Text processing *)

\* the characters str.split() splits at
IsSpace(c) == c \in {" ", "\n", "\t"}

\* s.split(): the maximal runs of non-whitespace characters of s, in order
RECURSIVE SplitFrom(_, _, _, _)
SplitFrom(s, i, word, words) ==
  IF i > Len(s)
  THEN IF word = <<>> THEN words ELSE Append(words, word)
  ELSE IF IsSpace(s[i])
       THEN SplitFrom(s, i + 1, <<>>, IF word = <<>> THEN words ELSE Append(words, word))
       ELSE SplitFrom(s, i + 1, Append(word, s[i]), words)

Split(s) == SplitFrom(s, 1, <<>>, <<>>)

\* separator.join(parts)
RECURSIVE Join(_, _)
Join(separator, parts) ==
  IF parts = <<>> THEN <<>>
  ELSE IF Len(parts) = 1 THEN parts[1]
  ELSE parts[1] \o separator \o Join(separator, Tail(parts))

\* (variant: ' '.join(page_text.split(' ')), which splits at single spaces
\* only and so gives the text back as it was)
ProcessPageText_SplitAtSpaces(page_text) == page_text

\* the text of a page after the processing REMOVE_EXTRA_WHITESPACE selects
ProcessPageText(page_text) ==
  IF config.REMOVE_EXTRA_WHITESPACE
  THEN Join(<<" ">>, Split(page_text))
  ELSE page_text

\* the separator PRESERVE_LINE_BREAKS selects
Separator == IF config.PRESERVE_LINE_BREAKS THEN <<"\n", "\n">> ELSE <<" ">>

----------------------------------------------------------------------------
(* extract_text_from_pdf *)

\* the loop over enumerate(reader.pages, start=1), from page page_num on
RECURSIVE TextLoop(_, _, _, _)
TextLoop(reader, page_num, all_text, trace) ==
  IF page_num > Len(reader.pages)
  THEN Return(all_text, trace)
  ELSE LET t == After(trace, extract_text(reader, page_num)) IN
       IF t.status = "raise" THEN t
       ELSE TextLoop(reader, page_num + 1,
                     Append(all_text, ProcessPageText(t.value)), t.trace)

\* (variant: the reader is opened before the file is validated)
TryExtractText_OpenFirst(file_path) ==
  LET o == PdfReader(file_path) IN
  IF o.status = "raise" THEN o ELSE
  LET v == After(o.trace, validate_pdf_file(file_path)) IN
  IF v.status = "raise" THEN v ELSE
  LET e == After(v.trace, is_encrypted(o.value)) IN
  IF e.status = "raise" THEN e ELSE
  IF e.value THEN Raise(Exc("ValueError", MsgEncrypted), e.trace) ELSE
  LET n == After(e.trace, pages(o.value)) IN
  IF n.status = "raise" THEN n ELSE
  LET t == TextLoop(o.value, 1, <<>>, n.trace) IN
  IF t.status = "raise" THEN t ELSE
  Return(Join(Separator, t.value), t.trace)

\* (variant: the pages are joined with a single newline)
TryExtractText_SingleNewline(file_path) ==
  LET v == validate_pdf_file(file_path) IN
  IF v.status = "raise" THEN v ELSE
  LET o == After(v.trace, PdfReader(file_path)) IN
  IF o.status = "raise" THEN o ELSE
  LET e == After(o.trace, is_encrypted(o.value)) IN
  IF e.status = "raise" THEN e ELSE
  IF e.value THEN Raise(Exc("ValueError", MsgEncrypted), e.trace) ELSE
  LET n == After(e.trace, pages(o.value)) IN
  IF n.status = "raise" THEN n ELSE
  LET t == TextLoop(o.value, 1, <<>>, n.trace) IN
  IF t.status = "raise" THEN t ELSE
  Return(Join(IF config.PRESERVE_LINE_BREAKS THEN <<"\n">> ELSE <<" ">>, t.value), t.trace)

\* (variant: an encrypted document is rejected with the library's
\* PdfReadError)
TryExtractText_EncryptedAsReadError(file_path) ==
  LET v == validate_pdf_file(file_path) IN
  IF v.status = "raise" THEN v ELSE
  LET o == After(v.trace, PdfReader(file_path)) IN
  IF o.status = "raise" THEN o ELSE
  LET e == After(o.trace, is_encrypted(o.value)) IN
  IF e.status = "raise" THEN e ELSE
  IF e.value THEN Raise(Exc("PdfReadError", MsgEncrypted), e.trace) ELSE
  LET n == After(e.trace, pages(o.value)) IN
  IF n.status = "raise" THEN n ELSE
  LET t == TextLoop(o.value, 1, <<>>, n.trace) IN
  IF t.status = "raise" THEN t ELSE
  Return(Join(Separator, t.value), t.trace)

\* the try block
TryExtractText(file_path) ==
  LET v == validate_pdf_file(file_path) IN
  IF v.status = "raise" THEN v ELSE
  LET o == After(v.trace, PdfReader(file_path)) IN
  IF o.status = "raise" THEN o ELSE
  LET e == After(o.trace, is_encrypted(o.value)) IN
  IF e.status = "raise" THEN e ELSE
  IF e.value THEN Raise(Exc("ValueError", MsgEncrypted), e.trace) ELSE
  LET n == After(e.trace, pages(o.value)) IN
  IF n.status = "raise" THEN n ELSE
  LET t == TextLoop(o.value, 1, <<>>, n.trace) IN
  IF t.status = "raise" THEN t ELSE
  Return(Join(Separator, t.value), t.trace)

\* the except clauses: FileNotFoundError and ValueError are re-raised as
\* they are, any other Exception is replaced by Exception(context + str(e))
ExceptClauses(r, context) ==
  IF r.status # "raise" THEN r
  ELSE IF IsInstance(r.exc.kind, "FileNotFoundError") THEN r
  ELSE IF IsInstance(r.exc.kind, "ValueError") THEN r
  ELSE IF IsInstance(r.exc.kind, "Exception")
       THEN Raise(Exc("Exception", context \o r.exc.msg), r.trace)
  ELSE r

extract_text_from_pdf(file_path) ==
  ExceptClauses(TryExtractText(file_path), MsgFailedText)

----------------------------------------------------------------------------
(* extract_text_by_pages *)

\* the page_data dictionary of one page (variant: pages numbered from 0)
PageData_ZeroBased(page_num, page_text) ==
  [ page_number |-> page_num - 1,
    text        |-> page_text,
    char_count  |-> Len(page_text) ]

PageData(page_num, page_text) ==
  [ page_number |-> page_num,
    text        |-> page_text,
    char_count  |-> Len(page_text) ]

RECURSIVE PagesLoop(_, _, _, _)
PagesLoop(reader, page_num, pages_data, trace) ==
  IF page_num > Len(reader.pages)
  THEN Return(pages_data, trace)
  ELSE LET t == After(trace, extract_text(reader, page_num)) IN
       IF t.status = "raise" THEN t
       ELSE LET page_text == ProcessPageText(t.value)
                page_data == PageData(page_num, page_text)
            IN PagesLoop(reader, page_num + 1, Append(pages_data, page_data), t.trace)

TryExtractPages(file_path) ==
  LET v == validate_pdf_file(file_path) IN
  IF v.status = "raise" THEN v ELSE
  LET o == After(v.trace, PdfReader(file_path)) IN
  IF o.status = "raise" THEN o ELSE
  LET e == After(o.trace, is_encrypted(o.value)) IN
  IF e.status = "raise" THEN e ELSE
  IF e.value THEN Raise(Exc("ValueError", MsgEncrypted), e.trace) ELSE
  LET n == After(e.trace, pages(o.value)) IN
  IF n.status = "raise" THEN n ELSE
  PagesLoop(o.value, 1, <<>>, n.trace)

extract_text_by_pages(file_path) ==
  ExceptClauses(TryExtractPages(file_path), MsgFailedPages)

----------------------------------------------------------------------------
(* get_pdf_metadata *)

METADATA_FIELDS ==
  << <<"t","i","t","l","e">>,
     <<"a","u","t","h","o","r">>,
     <<"s","u","b","j","e","c","t">>,
     <<"c","r","e","a","t","o","r">>,
     <<"p","r","o","d","u","c","e","r">>,
     <<"c","r","e","a","t","i","o","n","_","d","a","t","e">>,
     <<"m","o","d","i","f","i","c","a","t","i","o","n","_","d","a","t","e">> >>

IsCased(c) == IsUpper(c) \/ IsLower(c)

\* str.title(): a cased character is upper-cased when the character before
\* it is not cased, and lower-cased otherwise
Title(s) ==
  [i \in 1..Len(s) |->
     IF i > 1 /\ IsCased(s[i-1]) THEN LowerChar(s[i]) ELSE UpperChar(s[i])]

\* s.replace("_", "")
RemoveUnderscores(s) == SelectSeq(s, LAMBDA c : c # "_")

\* f'/{field.title().replace("_", "")}'
FieldKey(field) == <<"/">> \o RemoveUnderscores(Title(field))

\* round(size / (1024 * 1024), 2), in hundredths of a megabyte (a tie
\* goes to the even hundredth, the quotient being exact in binary)
RoundedSizeMB(size_bytes) ==
  LET whole == size_bytes \div BytesPerMB
      part  == (size_bytes % BytesPerMB) * 100
      q == whole * 100 + part \div BytesPerMB
      r == part % BytesPerMB
  IN IF 2 * r > BytesPerMB THEN q + 1
     ELSE IF 2 * r < BytesPerMB THEN q
     ELSE IF q % 2 = 0 THEN q ELSE q + 1

\* "if pdf_metadata:" is false for None and for an empty dictionary
Truthy(pdf_metadata) == ~ pdf_metadata.none /\ DOMAIN pdf_metadata.dict # {}

\* the loop over METADATA_FIELDS: the entries it adds to the record
MetadataEntries(pdf_metadata) ==
  [ field \in { METADATA_FIELDS[i] : i \in 1..Len(METADATA_FIELDS) } |->
      IF FieldKey(field) \in DOMAIN pdf_metadata.dict
      THEN pdf_metadata.dict[FieldKey(field)]
      ELSE None ]

\* (variant: an encrypted document is rejected, as the text operations do)
TryGetMetadata_RejectEncrypted(file_path) ==
  LET v == validate_pdf_file(file_path) IN
  IF v.status = "raise" THEN v ELSE
  LET o == After(v.trace, PdfReader(file_path)) IN
  IF o.status = "raise" THEN o ELSE
  LET e == After(o.trace, is_encrypted(o.value)) IN
  IF e.status = "raise" THEN e ELSE
  IF e.value THEN Raise(Exc("ValueError", MsgEncrypted), e.trace) ELSE
  LET n == After(e.trace, pages(o.value)) IN
  IF n.status = "raise" THEN n ELSE
  LET m == After(n.trace, metadata(o.value)) IN
  IF m.status = "raise" THEN m ELSE
  Return([ file_name    |-> os_path_basename(file_path),
           file_path    |-> os_path_abspath(file_path),
           file_size_mb |-> RoundedSizeMB(os_path_getsize(file_path)),
           page_count   |-> Len(n.value),
           is_encrypted |-> e.value,
           fields       |-> IF Truthy(m.value)
                            THEN MetadataEntries(m.value)
                            ELSE << >> ],
         m.trace)

\* the record is the five basic entries and, under fields, the entries
\* keyed by the names of METADATA_FIELDS
TryGetMetadata(file_path) ==
  LET v == validate_pdf_file(file_path) IN
  IF v.status = "raise" THEN v ELSE
  LET o == After(v.trace, PdfReader(file_path)) IN
  IF o.status = "raise" THEN o ELSE
  LET n == After(o.trace, pages(o.value)) IN
  IF n.status = "raise" THEN n ELSE
  LET e == After(n.trace, is_encrypted(o.value)) IN
  IF e.status = "raise" THEN e ELSE
  LET m == After(e.trace, metadata(o.value)) IN
  IF m.status = "raise" THEN m ELSE
  Return([ file_name    |-> os_path_basename(file_path),
           file_path    |-> os_path_abspath(file_path),
           file_size_mb |-> RoundedSizeMB(os_path_getsize(file_path)),
           page_count   |-> Len(n.value),
           is_encrypted |-> e.value,
           fields       |-> IF Truthy(m.value)
                            THEN MetadataEntries(m.value)
                            ELSE << >> ],
         m.trace)

get_pdf_metadata(file_path) ==
  ExceptClauses(TryGetMetadata(file_path), MsgFailedMetadata)

----------------------------------------------------------------------------
(* The files and documents the operations are called on *)

\* paths: a.pdf, a.PDF, a.Pdf, a.txt, a, .pdf, d.pdf/a, a.txt.pdf, a.pdf.txt
Paths ==
  { <<"a",".","p","d","f">>,
    <<"a",".","P","D","F">>,
    <<"a",".","P","d","f">>,
    <<"a",".","t","x","t">>,
    <<"a">>,
    <<".","p","d","f">>,
    <<"d",".","p","d","f","/","a">>,
    <<"a",".","t","x","t",".","p","d","f">>,
    <<"a",".","p","d","f",".","t","x","t">> }

\* file sizes in bytes: empty, one byte, the default limit, one byte over it
Sizes == {0, 1, MAX_FILE_SIZE_MB * BytesPerMB, MAX_FILE_SIZE_MB * BytesPerMB + 1}

\* the characters of raw page text
Alphabet == {"a", " ", "\n", "\t"}

\* the texts of at most n characters
Texts(n) == UNION { [1..k -> Alphabet] : k \in 0..n }

\* the characters of the pages of the documents of several pages
PageAlphabet == {"a", " ", "\n"}

\* their texts of at most n characters
PageTexts(n) == UNION { [1..k -> PageAlphabet] : k \in 0..n }

\* the lists of k raw page texts holding at most n characters together
RECURSIVE PageLists(_, _)
PageLists(k, n) ==
  IF k = 0 THEN { <<>> }
  ELSE UNION { { <<t>> \o rest : rest \in PageLists(k - 1, n - Len(t)) } : t \in PageTexts(n) }

RawPages == UNION { PageLists(k, MaxChars) : k \in 0..MaxPages }

\* lists of pages that all hold the text "a"
PlainPages == UNION { [1..k -> { <<"a">> }] : k \in 0..MaxPages }

\* the keys PyPDF2 gives the entries of the document-info dictionary
InfoKeys ==
  { <<"/","T","i","t","l","e">>,
    <<"/","A","u","t","h","o","r">>,
    <<"/","S","u","b","j","e","c","t">>,
    <<"/","C","r","e","a","t","o","r">>,
    <<"/","P","r","o","d","u","c","e","r">>,
    <<"/","C","r","e","a","t","i","o","n","D","a","t","e">>,
    <<"/","M","o","d","D","a","t","e">> }

\* the values of its entries: a text, or the empty string
InfoValues == { <<"v">>, <<>> }

\* reader.metadata: None when the document has no info dictionary
NoInfo == [none |-> TRUE, dict |-> << >>]

Infos ==
  {NoInfo} \cup
  { [none |-> FALSE, dict |-> d] :
      d \in UNION { [K -> InfoValues] :
                      K \in { K \in SUBSET InfoKeys : Cardinality(K) <= MaxInfoKeys } } }

\* the classes of the exceptions the reader raises while parsing: the
\* library's own PdfReadError, and ValueError or a subclass of it
ReaderErrorKinds == {"PdfReadError", "ValueError", "UnicodeDecodeError"}

NoFail == [at |-> "none", kind |-> "none", page |-> 0]

\* where the reader fails on a document with n pages, and with what; on
\* opening it may also find the file gone since it was validated
Fails(n) ==
  {NoFail}
  \cup { [at |-> "open", kind |-> "FileNotFoundError", page |-> 0] }
  \cup { [at |-> a, kind |-> k, page |-> 0] :
           a \in {"open", "is_encrypted", "pages", "metadata"}, k \in ReaderErrorKinds }
  \cup { [at |-> "extract_text", kind |-> k, page |-> p] :
           k \in ReaderErrorKinds, p \in 1..n }

Doc(fail, encrypted, pgs, info) ==
  [fail |-> fail, encrypted |-> encrypted, pages |-> pgs, info |-> info]

\* a one-page document that reads without failure, plain or encrypted
SimpleDocs == { Doc(NoFail, e, << <<"a">> >>, NoInfo) : e \in BOOLEAN }

File(path, exists, size, doc) ==
  [path |-> path, exists |-> exists, size |-> size, doc |-> doc]

ValidPath == <<"a",".","p","d","f">>

\* any path, missing or of any size, under either size limit
ValidationScenarios ==
  { [config |-> c, file |-> f] :
      c \in SizeLimitConfigs,
      f \in { File(p, FALSE, 0, d) : p \in Paths, d \in SimpleDocs }
            \cup { File(p, TRUE, s, d) : p \in Paths, s \in Sizes, d \in SimpleDocs } }

\* a file that passes validation and reads without failure, with any page
\* texts, under every setting of the two toggles
TextScenarios ==
  { [config |-> c, file |-> File(ValidPath, TRUE, 1, Doc(NoFail, FALSE, pgs, NoInfo))] :
      c \in ToggleConfigs, pgs \in RawPages }

\* a one-page document of that kind with a longer text, with and without
\* whitespace normalization
OnePageScenarios ==
  { [config |-> [DefaultConfig EXCEPT !.REMOVE_EXTRA_WHITESPACE = w],
     file |-> File(ValidPath, TRUE, 1, Doc(NoFail, FALSE, <<t>>, NoInfo))] :
      w \in BOOLEAN, t \in Texts(MaxTextLen) }

\* a file that passes validation, on which the reader may fail anywhere
FailureScenarios ==
  { [config |-> DefaultConfig, file |-> File(ValidPath, TRUE, 1, d)] :
      d \in UNION { { Doc(f, e, pgs, NoInfo) : f \in Fails(Len(pgs)), e \in BOOLEAN } :
                      pgs \in PlainPages } }

\* a file that passes validation, with any document-info dictionary
InfoScenarios ==
  { [config |-> DefaultConfig,
     file |-> File(ValidPath, TRUE, 1, Doc(NoFail, e, << <<"a">> >>, i))] :
      e \in BOOLEAN, i \in Infos }

Scenarios ==
  ValidationScenarios \cup TextScenarios \cup OnePageScenarios
    \cup FailureScenarios \cup InfoScenarios

----------------------------------------------------------------------------
(* The state machine: one process, its configuration and one file; res    *)
(* holds the outcome of the latest call of each operation on that file.   *)

Ops == {"validate_pdf_file", "extract_text_from_pdf",
        "extract_text_by_pages", "get_pdf_metadata"}

NotCalled == [status |-> "none"]

Init ==
  \E sc \in Scenarios :
     /\ config = sc.config
     /\ file = sc.file
     /\ res = [op \in Ops |-> NotCalled]

CallValidate ==
  /\ res' = [res EXCEPT !["validate_pdf_file"] = validate_pdf_file(file.path)]
  /\ UNCHANGED <<config, file>>

CallExtractText ==
  /\ res' = [res EXCEPT !["extract_text_from_pdf"] = extract_text_from_pdf(file.path)]
  /\ UNCHANGED <<config, file>>

CallExtractPages ==
  /\ res' = [res EXCEPT !["extract_text_by_pages"] = extract_text_by_pages(file.path)]
  /\ UNCHANGED <<config, file>>

CallGetMetadata ==
  /\ res' = [res EXCEPT !["get_pdf_metadata"] = get_pdf_metadata(file.path)]
  /\ UNCHANGED <<config, file>>

Next ==
  \/ CallValidate
  \/ CallExtractText
  \/ CallExtractPages
  \/ CallGetMetadata

Spec == Init /\ [][Next]_vars

----------------------------------------------------------------------------
(* Vocabulary of the properties *)

ExtractionOps == {"extract_text_from_pdf", "extract_text_by_pages", "get_pdf_metadata"}

Called(op) == res[op].status # "none"

Returned(op) == res[op].status = "return"

Raised(op) == res[op].status = "raise"

RaisedKind(op, kind) == Raised(op) /\ res[op].exc.kind = kind

\* the reader was opened during the call
Opened(op) == \E i \in 1..Len(res[op].trace) : res[op].trace[i] = "PdfReader"

\* facts of the file, read off the file system
Missing == ~ file.exists

UnsupportedExtension == Lower(SplitExt(file.path)) \notin SUPPORTED_EXTENSIONS

Oversized == file.size > config.MAX_FILE_SIZE_MB * BytesPerMB

PassesValidation == file.exists /\ ~ UnsupportedExtension /\ ~ Oversized

----------------------------------------------------------------------------
(* C1 *)

\* C1: in every call of the three extraction operations the reader is
\* opened only after validate_pdf_file has passed earlier in the same call,
\* and for a file that is missing, has an unsupported extension or is
\* oversized the reader is never opened.
C1_OpenOnlyAfterValidation ==
  \A op \in ExtractionOps :
     Called(op) =>
       /\ \A i \in 1..Len(res[op].trace) :
            res[op].trace[i] = "PdfReader" =>
              \E j \in 1..(i - 1) : res[op].trace[j] = "validation passed"
       /\ (Missing \/ UnsupportedExtension \/ Oversized) => ~ Opened(op)

C1_Witness ==
  /\ \A op \in ExtractionOps : Called(op) /\ Opened(op)
  /\ PassesValidation

----------------------------------------------------------------------------
(* C2 *)

\* C2: for a path that does not exist, whatever its extension,
\* validate_pdf_file raises FileNotFoundError, and each extraction operation
\* raises that same exception, not rewrapped.
C2_MissingIsNotFound ==
  Missing =>
    /\ Called("validate_pdf_file") => RaisedKind("validate_pdf_file", NotFound)
    /\ \A op \in ExtractionOps :
         Called(op) =>
           /\ RaisedKind(op, NotFound)
           /\ res[op].exc = Exc("FileNotFoundError", MsgNotFound \o file.path)

C2_Witness ==
  /\ Missing
  /\ UnsupportedExtension
  /\ \A op \in Ops : Raised(op)

----------------------------------------------------------------------------
(* C3 *)

\* C3, as claimed: for an existing path validate_pdf_file raises ValueError
\* exactly when the extension, lower-cased, is not a supported one.
C3_Original ==
  (file.exists /\ Called("validate_pdf_file")) =>
    (RaisedKind("validate_pdf_file", InvalidInput) <=> UnsupportedExtension)

\* C3, amended: for an existing path validate_pdf_file raises the
\* unsupported-file-type ValueError exactly when the extension, lower-cased,
\* is not a supported one, and raises a ValueError exactly when the
\* extension is unsupported or the file is oversized; a.txt is rejected,
\* a.PDF and a.Pdf are not rejected for their extension.
C3_ExtensionCheck ==
  (file.exists /\ Called("validate_pdf_file")) =>
    LET r == res["validate_pdf_file"]
        rejectedForExtension ==
          /\ RaisedKind("validate_pdf_file", InvalidInput)
          /\ SubSeq(r.exc.msg, 1, 1) = MsgUnsupported
    IN /\ rejectedForExtension <=> UnsupportedExtension
       /\ RaisedKind("validate_pdf_file", InvalidInput)
            <=> (UnsupportedExtension \/ Oversized)
       /\ file.path = <<"a",".","t","x","t">> => rejectedForExtension
       /\ file.path \in { <<"a",".","P","D","F">>, <<"a",".","P","d","f">> }
            => ~ rejectedForExtension

C3_Witness ==
  /\ file.exists
  /\ file.path = <<"a",".","P","D","F">>
  /\ Returned("validate_pdf_file")

----------------------------------------------------------------------------
(* C4 *)

\* C4: for an existing path with a supported extension validate_pdf_file
\* raises ValueError when the size in megabytes exceeds the configured
\* maximum; with the maximum 0 every non-empty file is rejected.
C4_SizeCheck ==
  (file.exists /\ ~ UnsupportedExtension /\ Called("validate_pdf_file")) =>
    /\ Oversized =>
         /\ RaisedKind("validate_pdf_file", InvalidInput)
         /\ res["validate_pdf_file"].exc.msg = MsgTooLarge
    /\ (config.MAX_FILE_SIZE_MB = 0 /\ file.size > 0) =>
         RaisedKind("validate_pdf_file", InvalidInput)

C4_Witness ==
  /\ file.exists
  /\ ~ UnsupportedExtension
  /\ config.MAX_FILE_SIZE_MB = 0
  /\ file.size = 1
  /\ Raised("validate_pdf_file")

----------------------------------------------------------------------------
(* C5 *)

\* the reader reads the whole document without failure
ReadsWithoutFailure == file.doc.fail.at = "none"

\* C5: for a file that passes validation and is read without failure as a
\* non-encrypted document, extract_text_by_pages returns as many records as
\* the page_count get_pdf_metadata reports, and the i-th record has
\* page_number i.
C5_PageNumbering ==
  (PassesValidation /\ ReadsWithoutFailure /\ ~ file.doc.encrypted) =>
    /\ Called("extract_text_by_pages") =>
         /\ Returned("extract_text_by_pages")
         /\ \A i \in 1..Len(res["extract_text_by_pages"].value) :
              res["extract_text_by_pages"].value[i].page_number = i
    /\ (Called("extract_text_by_pages") /\ Called("get_pdf_metadata")) =>
         /\ Returned("get_pdf_metadata")
         /\ Len(res["extract_text_by_pages"].value)
              = res["get_pdf_metadata"].value.page_count

C5_Witness ==
  /\ Returned("extract_text_by_pages")
  /\ Returned("get_pdf_metadata")
  /\ res["get_pdf_metadata"].value.page_count = MaxPages

\* the case of the empty document
C5_WitnessEmpty ==
  /\ Returned("extract_text_by_pages")
  /\ Returned("get_pdf_metadata")
  /\ res["extract_text_by_pages"].value = <<>>

----------------------------------------------------------------------------
(* C6 *)

\* the text entries of the page records, in order
TextsOf(pages_data) == [i \in 1..Len(pages_data) |-> pages_data[i].text]

\* C6: under every setting of the two toggles, for a file that passes
\* validation and is read without failure as a non-encrypted document, the
\* texts of extract_text_by_pages joined with the configured separator are
\* the string extract_text_from_pdf returns.
C6_JoinedPagesAreFullText ==
  (PassesValidation /\ ReadsWithoutFailure /\ ~ file.doc.encrypted
     /\ Called("extract_text_by_pages") /\ Called("extract_text_from_pdf")) =>
    /\ Returned("extract_text_by_pages")
    /\ Returned("extract_text_from_pdf")
    /\ res["extract_text_from_pdf"].value
         = Join(IF config.PRESERVE_LINE_BREAKS THEN <<"\n", "\n">> ELSE <<" ">>,
                TextsOf(res["extract_text_by_pages"].value))

\* two pages, one of them with empty text, line breaks preserved
C6_Witness ==
  /\ Returned("extract_text_by_pages")
  /\ Returned("extract_text_from_pdf")
  /\ Len(res["extract_text_by_pages"].value) = 2
  /\ res["extract_text_by_pages"].value[1].text = <<>>
  /\ res["extract_text_by_pages"].value[2].text # <<>>
  /\ config.PRESERVE_LINE_BREAKS

----------------------------------------------------------------------------
(* C7 *)

\* the call was refused because the document is encrypted
RejectedAsEncrypted(op) == Raised(op) /\ res[op].exc = Exc("ValueError", MsgEncrypted)

\* the file passes validation, opens, and the reader reports it encrypted
ReportedEncrypted ==
  /\ PassesValidation
  /\ file.doc.fail.at \notin {"open", "is_encrypted"}
  /\ file.doc.encrypted

\* C7, as claimed: on a file that passes validation and that the reader
\* reports as encrypted get_pdf_metadata returns a record with is_encrypted
\* true, and the two text operations are refused.
C7_Original ==
  ReportedEncrypted =>
    /\ Called("get_pdf_metadata") =>
         /\ Returned("get_pdf_metadata")
         /\ res["get_pdf_metadata"].value.is_encrypted
    /\ Called("extract_text_from_pdf") => RejectedAsEncrypted("extract_text_from_pdf")
    /\ Called("extract_text_by_pages") => RejectedAsEncrypted("extract_text_by_pages")

\* C7, amended: on such a file the two text operations are refused and
\* return nothing; get_pdf_metadata is never refused for the encryption,
\* every record it returns has is_encrypted true, and it returns one
\* whenever the reader does not fail on the page list or the document info.
C7_EncryptedMetadataNotRefused ==
  ReportedEncrypted =>
    /\ Called("extract_text_from_pdf") => RejectedAsEncrypted("extract_text_from_pdf")
    /\ Called("extract_text_by_pages") => RejectedAsEncrypted("extract_text_by_pages")
    /\ Called("get_pdf_metadata") =>
         /\ ~ RejectedAsEncrypted("get_pdf_metadata")
         /\ Returned("get_pdf_metadata") => res["get_pdf_metadata"].value.is_encrypted
         /\ file.doc.fail.at \notin {"pages", "metadata"} => Returned("get_pdf_metadata")

C7_Witness ==
  /\ ReportedEncrypted
  /\ Returned("get_pdf_metadata")
  /\ res["get_pdf_metadata"].value.is_encrypted
  /\ RejectedAsEncrypted("extract_text_from_pdf")
  /\ RejectedAsEncrypted("extract_text_by_pages")

----------------------------------------------------------------------------
(* C8 *)

\* C8: every record get_pdf_metadata returns has an entry for every field
\* of METADATA_FIELDS, and the entry of a field the document lacks is None.
C8_EveryFieldPresent ==
  Returned("get_pdf_metadata") =>
    \A i \in 1..Len(METADATA_FIELDS) :
       LET field == METADATA_FIELDS[i]
           entries == res["get_pdf_metadata"].value.fields
       IN /\ field \in DOMAIN entries
          /\ FieldKey(field) \notin DOMAIN file.doc.info.dict => entries[field] = None

----------------------------------------------------------------------------
(* C9 *)

\* the messages of the failures the reader raises
ReaderMessages ==
  { <<"reader: open">>, <<"reader: is_encrypted">>, <<"reader: pages">>,
    <<"reader: extract_text">>, <<"reader: metadata">> }

Context(op) ==
  CASE op = "extract_text_from_pdf" -> MsgFailedText
    [] op = "extract_text_by_pages" -> MsgFailedPages
    [] op = "get_pdf_metadata"      -> MsgFailedMetadata

\* the call ended with the reader's own exception, as the reader raised it
ReaderFailureUnwrapped(op) ==
  Raised(op) /\ res[op].exc.msg \in ReaderMessages

\* the call ended with the generic exception carrying the operation's
\* context and the reader's message
ReaderFailureWrapped(op) ==
  /\ Raised(op)
  /\ res[op].exc.kind = ExtractionFailed
  /\ \E m \in ReaderMessages : res[op].exc.msg = Context(op) \o m

\* C9: a failure raised by the reader, of whatever class, reaches the caller
\* as the generic exception with the original message and the context; what
\* reaches the caller untransformed was raised by the validator or by the
\* encryption check.
C9_ReaderFailuresWrapped ==
  \A op \in ExtractionOps :
     Raised(op) =>
       \/ ReaderFailureWrapped(op)
       \/ /\ ~ PassesValidation
          /\ res[op].exc = validate_pdf_file(file.path).exc
       \/ res[op].exc = Exc("ValueError", MsgEncrypted)

\* what does hold: the reader's failures of classes other than ValueError
\* and FileNotFoundError (and their subclasses) are wrapped
C9_OtherClassesWrapped ==
  \A op \in ExtractionOps :
     (Raised(op) /\ file.doc.fail.kind = "PdfReadError") =>
       \/ ReaderFailureWrapped(op)
       \/ res[op].exc = Exc("ValueError", MsgEncrypted)

----------------------------------------------------------------------------
(* C10 *)

\* C10, as claimed: the exception with which the two text operations refuse
\* an encrypted document is of another class than the validator's ValueError.
C10_Original ==
  \A op \in {"extract_text_from_pdf", "extract_text_by_pages"} :
     (ReportedEncrypted /\ Called(op)) =>
       /\ Raised(op)
       /\ res[op].exc.kind # InvalidInput

\* C10, amended: that exception is a ValueError, the class of the
\* validator's failures for a wrong extension or an oversized file; it
\* differs from them by its message only.
C10_EncryptedIsValueError ==
  \A op \in {"extract_text_from_pdf", "extract_text_by_pages"} :
     (ReportedEncrypted /\ Called(op)) =>
       /\ Raised(op)
       /\ res[op].exc.kind = InvalidInput
       /\ res[op].exc.msg = MsgEncrypted
       /\ res[op].exc.msg # MsgTooLarge
       /\ SubSeq(res[op].exc.msg, 1, 1) # MsgUnsupported

C10_Witness ==
  /\ ReportedEncrypted
  /\ RejectedAsEncrypted("extract_text_from_pdf")
  /\ RejectedAsEncrypted("extract_text_by_pages")
  /\ Called("validate_pdf_file")

----------------------------------------------------------------------------
(* C11 *)

\* raw with its leading and trailing whitespace dropped and every other run
\* of whitespace replaced by one space, computed in one pass from position
\* i on: a whitespace character is kept, as a space, when it follows a
\* character that is not whitespace and another such character comes later
RECURSIVE CollapsedFrom(_, _)
CollapsedFrom(raw, i) ==
  IF i > Len(raw) THEN <<>>
  ELSE IF ~ IsSpace(raw[i]) THEN <<raw[i]>> \o CollapsedFrom(raw, i + 1)
  ELSE IF /\ i > 1
          /\ ~ IsSpace(raw[i - 1])
          /\ \E k \in (i + 1)..Len(raw) : ~ IsSpace(raw[k])
       THEN <<" ">> \o CollapsedFrom(raw, i + 1)
       ELSE CollapsedFrom(raw, i + 1)

\* C11: in every record extract_text_by_pages returns char_count is the
\* length of text; with whitespace normalization enabled the text of page i
\* neither begins nor ends with whitespace, holds no newline or tab and no
\* two whitespace characters in a row, and is the raw text of page i alone
\* with every run of whitespace collapsed to one space; with it disabled
\* the text is the raw text.
C11_PageTextNormalized ==
  Returned("extract_text_by_pages") =>
    /\ Len(res["extract_text_by_pages"].value) = Len(file.doc.pages)
    /\ \A i \in 1..Len(res["extract_text_by_pages"].value) :
         LET rec == res["extract_text_by_pages"].value[i]
             text == rec.text
             raw == file.doc.pages[i]
         IN /\ rec.char_count = Len(text)
            /\ config.REMOVE_EXTRA_WHITESPACE =>
                 /\ text # <<>> => (~ IsSpace(text[1]) /\ ~ IsSpace(text[Len(text)]))
                 /\ \A j \in 1..Len(text) : text[j] \notin {"\n", "\t"}
                 /\ \A j \in 1..(Len(text) - 1) :
                      ~ (IsSpace(text[j]) /\ IsSpace(text[j + 1]))
                 /\ text = CollapsedFrom(raw, 1)
            /\ ~ config.REMOVE_EXTRA_WHITESPACE => text = raw

\* a page whose raw text has a run of a newline and a tab between two
\* characters, normalized
C11_Witness ==
  /\ config.REMOVE_EXTRA_WHITESPACE
  /\ Returned("extract_text_by_pages")
  /\ file.doc.pages = << <<"a", "\n", "\t", "a">> >>
  /\ res["extract_text_by_pages"].value[1].text = <<"a", " ", "a">>
  /\ res["extract_text_by_pages"].value[1].char_count = 3

\* two pages normalized each on its own
C11_WitnessTwoPages ==
  /\ config.REMOVE_EXTRA_WHITESPACE
  /\ Returned("extract_text_by_pages")
  /\ file.doc.pages = << <<" ", "a">>, <<"\n">> >>
  /\ TextsOf(res["extract_text_by_pages"].value) = << <<"a">>, <<>> >>

----------------------------------------------------------------------------
(* C12 *)

\* the key PyPDF2 gives the entry of each configured field, in the order of
\* METADATA_FIELDS
LibraryKeys ==
  << <<"/","T","i","t","l","e">>,
     <<"/","A","u","t","h","o","r">>,
     <<"/","S","u","b","j","e","c","t">>,
     <<"/","C","r","e","a","t","o","r">>,
     <<"/","P","r","o","d","u","c","e","r">>,
     <<"/","C","r","e","a","t","i","o","n","D","a","t","e">>,
     <<"/","M","o","d","D","a","t","e">> >>

\* the document-info dictionary holds a value under the library's key of
\* the i-th configured field
HoldsLibraryKey(i) ==
  ~ file.doc.info.none /\ LibraryKeys[i] \in DOMAIN file.doc.info.dict

\* the record get_pdf_metadata returned holds that value for the field
RecordHoldsValue(i) ==
  LET entries == res["get_pdf_metadata"].value.fields
  IN /\ METADATA_FIELDS[i] \in DOMAIN entries
     /\ entries[METADATA_FIELDS[i]] = file.doc.info.dict[LibraryKeys[i]]
     /\ entries[METADATA_FIELDS[i]] # None

\* C12: for every configured field, whenever the document-info dictionary
\* holds a value under the library's key for it, the key get_pdf_metadata
\* derives from the field name is that key and the returned record holds
\* that value for the field, not None.
C12_LibraryKeysFound ==
  Returned("get_pdf_metadata") =>
    \A i \in 1..Len(METADATA_FIELDS) :
       HoldsLibraryKey(i) =>
         /\ FieldKey(METADATA_FIELDS[i]) = LibraryKeys[i]
         /\ RecordHoldsValue(i)

\* what does hold: the same for the fields other than modification_date
C12_FieldsButModificationDate ==
  Returned("get_pdf_metadata") =>
    \A i \in 1..(Len(METADATA_FIELDS) - 1) :
       HoldsLibraryKey(i) =>
         /\ FieldKey(METADATA_FIELDS[i]) = LibraryKeys[i]
         /\ RecordHoldsValue(i)

====
